---- MODULE Spec2Model ----
(***************************************************************************)
(* wp-host: batch provisioning of WordPress sites.                         *)
(*                                                                         *)
(* Two layers are modelled:                                                *)
(*   - MySQLManager (src/src/mysql-manager.ts) acting on a MySQL server:   *)
(*     specification SpecDb;                                               *)
(*   - the deploy command (src/unnamed/part_006, the CLI entry point) with *)
(*     WordPressManager.installAllSites and                                *)
(*     PermissionsManager.setAllPermissions: specification Spec.           *)
(***************************************************************************)
EXTENDS Integers, Sequences, FiniteSets, TLC

(***************************************************************************)
(* Bounds                                                                  *)
(***************************************************************************)
\* database names the MySQL layer is exercised with
NumDbNames == 2
\* sites of the deployed configuration
NumSites == 2

DbNames == 1..NumDbNames
\* the MySQL account the layer is exercised with (user@localhost)
UserNames == {"wp_user"}
\* config.mysql.sharedDbPassword, and any other password an account may carry
SharedDbPassword == "shared"
Passwords == {SharedDbPassword, "other"}
Sites == 1..NumSites

VARIABLES
    \* ---- MySQL layer ----
    connection,   \* MySQLManager.connection: "null", "open", or "dead"
                  \* (assigned by createConnection, but its ping failed)
    server,       \* the MySQL server: databases, users, database-level grants
    last,         \* the last MySQLManager operation: arguments, statements, error
    \* ---- deploy ----
    pc,           \* position of the deploy action
    exitCode,     \* process.exit code; -1 while the command runs
    idx,          \* loop counter i of the running per-site loop (1-based)
    wpStep,       \* step of installWordPressSite the current site is at
    dbResults,    \* results array of DatabaseManager.createAllDatabases
    wpResults,    \* results array of WordPressManager.installAllSites
    permResults,  \* results array of PermissionsManager.setAllPermissions
    wpcli,        \* whether the host could provide wp to ensureWPCLIInstalled
    trace,        \* the per-site steps started so far, in order, with outcomes
    opts,         \* deployment options
    ran,          \* batch-level steps executed, aborts and throws
    \* ---- ConfigParser ----
    config,       \* the parsed configuration: its sites array
    errors,       \* ValidationError[] collected by validateConfig
    parsed,       \* "pending", "accepted" or "rejected" (validateConfig threw)
    \* ---- staging of one site by WordPressManager ----
    dir,          \* entries of the site's target directory
    stagePc,      \* step of installWordPressSite that runs next on dir
    stageLog,     \* the prepareDirectory call and the error that ended staging
    \* ---- createWordPressConfig ----
    artifact,     \* the config text: database settings and the secret slots
    genPc,        \* position inside createWordPressConfig
    keyIdx,       \* position of keys.forEach (1-based)
    drawn,        \* generateKey calls made by the process so far
    runs,         \* wp-config.php files written so far
    \* ---- PermissionsManager.setSitePermissions on one site ----
    tree,         \* the install path: kind and mode of every path in it
    permPc,       \* step of setSitePermissions that runs next
    \* ---- the cleanup-databases and cleanup-wordpress commands ----
    cmd,          \* the command line, and the server and directory it found
    cleanupPc,    \* position of the command's action
    cleanupRan,   \* what the action has called so far
    \* ---- the extraction promise of extractWordPress ----
    promise,      \* "pending", "resolved" or "rejected"
    stream,       \* the unzip stream: "flowing", "closed" or "errored"
    timer,        \* the setTimeout callback: "armed" or "fired"
    clock,        \* seconds since the promise was created
    \* ---- generateSiteUrl of the two managers ----
    siteUrl,      \* a directory path and the URL each manager derives from it
    \* ---- cleanupAllInstallations ----
    siteDirs      \* the directory of each site: whether it exists, its entries

dbVars == <<connection, server, last>>
deployVars == <<pc, exitCode, idx, wpStep, dbResults, wpResults, permResults,
                wpcli, trace, opts, ran>>
\* state of the components that are also checked on their own
cfgVars == <<config, errors, parsed>>
stageVars == <<dir, stagePc, stageLog>>
genVars == <<artifact, genPc, keyIdx, drawn, runs>>
permVars == <<tree, permPc>>
cleanupVars == <<cmd, cleanupPc, cleanupRan>>
extractVars == <<promise, stream, timer, clock>>
urlVars == <<siteUrl>>
cleanAllVars == <<siteDirs>>
unitVars == <<cfgVars, stageVars, genVars, permVars, cleanupVars, extractVars,
              urlVars, cleanAllVars>>
vars == <<connection, server, last, pc, exitCode, idx, wpStep, dbResults,
          wpResults, permResults, wpcli, trace, opts, ran, config, errors, parsed,
          dir, stagePc, stageLog, artifact, genPc, keyIdx, drawn, runs,
          tree, permPc, cmd, cleanupPc, cleanupRan, promise, stream, timer, clock,
          siteUrl, siteDirs>>

NoError == "-"
NoStageLog == [allowCleanup |-> "-", before |-> {}, step |-> "-", err |-> NoError,
               skipPrompts |-> FALSE, prompted |-> FALSE, probed |-> FALSE]

\* the components checked on their own, before they are used
CfgIdle ==
    /\ config = <<>>
    /\ errors = <<>>
    /\ parsed = "idle"

StageIdle ==
    /\ dir = {}
    /\ stagePc = "idle"
    /\ stageLog = NoStageLog

NoArtifact == [database_name |-> "-", db_user |-> "-", secrets |-> <<>>]

GenIdle ==
    /\ artifact = NoArtifact
    /\ genPc = "idle"
    /\ keyIdx = 0
    /\ drawn = 0
    /\ runs = 0

PermIdle ==
    /\ tree = <<>>
    /\ permPc = "idle"

CleanupIdle ==
    /\ cmd = <<>>
    /\ cleanupPc = "idle"
    /\ cleanupRan = {}

ExtractIdle ==
    /\ promise = "idle"
    /\ stream = "idle"
    /\ timer = "idle"
    /\ clock = 0

UrlIdle == siteUrl = <<>>
CleanAllIdle == siteDirs = <<>>

UnitIdle ==
    /\ CfgIdle /\ StageIdle /\ GenIdle /\ PermIdle /\ CleanupIdle /\ ExtractIdle
    /\ UrlIdle /\ CleanAllIdle

(***************************************************************************)
(* The MySQL server, as far as the statements of mysql-manager.ts see it.  *)
(***************************************************************************)
EmptyServer ==
    [databases |-> [d \in DbNames |-> "absent"],
     users     |-> [u \in UserNames |-> "absent"],
     grants    |-> {}]

NoUser == "-"
Stmt(op, d, u, p) == [op |-> op, db |-> d, user |-> u, pw |-> p]

SelectSchema(d)    == Stmt("SELECT_SCHEMA", d, NoUser, "-")
SelectUser(u)      == Stmt("SELECT_USER", 0, u, "-")
CreateDatabaseStmt(d) == Stmt("CREATE_DATABASE", d, NoUser, "-")
CreateUserStmt(u, p)  == Stmt("CREATE_USER", 0, u, p)
GrantAllStmt(u, d)    == Stmt("GRANT_ALL", d, u, "-")
DropDatabaseIfExists(d) == Stmt("DROP_DATABASE_IF_EXISTS", d, NoUser, "-")
DropUserIfExists(u)     == Stmt("DROP_USER_IF_EXISTS", 0, u, "-")
FlushPrivileges         == Stmt("FLUSH_PRIVILEGES", 0, NoUser, "-")

\* One statement executed by the server: the new server and whether it succeeded.
Exec(srv, s) ==
    CASE s.op = "CREATE_DATABASE" ->
            IF srv.databases[s.db] # "absent"
            THEN [srv |-> srv, ok |-> FALSE]
            ELSE [srv |-> [srv EXCEPT !.databases[s.db] = "empty"], ok |-> TRUE]
      [] s.op = "CREATE_USER" ->
            IF srv.users[s.user] # "absent"
            THEN [srv |-> srv, ok |-> FALSE]
            ELSE [srv |-> [srv EXCEPT !.users[s.user] = s.pw], ok |-> TRUE]
      [] s.op = "GRANT_ALL" ->
            IF srv.users[s.user] = "absent"
            THEN [srv |-> srv, ok |-> FALSE]
            ELSE [srv |-> [srv EXCEPT !.grants = @ \cup {<<s.user, s.db>>}], ok |-> TRUE]
      [] s.op = "DROP_DATABASE_IF_EXISTS" ->
            [srv |-> [srv EXCEPT !.databases[s.db] = "absent"], ok |-> TRUE]
      [] s.op = "DROP_USER_IF_EXISTS" ->
            [srv |-> [srv EXCEPT !.users[s.user] = "absent",
                                 !.grants = {g \in @ : g[1] # s.user}],
             ok |-> TRUE]
      [] OTHER -> [srv |-> srv, ok |-> TRUE]

\* connection.execute of the statements in order; the first failing statement
\* throws and ends the run.  faultAt = k makes the k-th statement issued by the
\* operation fail in the server (connection lost, server error); 0: no fault.
RECURSIVE Run(_, _, _)
Run(r, stmts, faultAt) ==
    IF r.err \/ stmts = <<>> THEN r
    ELSE LET s == Head(stmts)
             e == IF Len(r.log) + 1 = faultAt
                  THEN [srv |-> r.srv, ok |-> FALSE]
                  ELSE Exec(r.srv, s)
         IN Run([srv |-> e.srv, log |-> Append(r.log, s), err |-> ~e.ok,
                 failedAt |-> IF e.ok THEN 0 ELSE Len(r.log) + 1],
                Tail(stmts), faultAt)

Begin(srv) == [srv |-> srv, log |-> <<>>, err |-> FALSE, failedAt |-> 0]
NotConnected(srv) == [srv |-> srv, log |-> <<>>, err |-> TRUE, failedAt |-> 0]

(***************************************************************************)
(* MySQLManager operations: server before -> [srv, log, err].              *)
(* conn is this.connection; a "dead" connection fails its first statement. *)
(***************************************************************************)
Fault(conn, faultAt) == IF conn = "dead" THEN 1 ELSE faultAt

\* createDatabase without its databaseExists check
createDatabaseNoCheck(conn, srv, d, faultAt) ==
    IF conn = "null" THEN NotConnected(srv)
    ELSE Run(Begin(srv), <<SelectSchema(d), CreateDatabaseStmt(d)>>, Fault(conn, faultAt))

createDatabase(conn, srv, d, faultAt) ==
    IF conn = "null" THEN NotConnected(srv)
    ELSE LET f == Fault(conn, faultAt)
             chk == Run(Begin(srv), <<SelectSchema(d)>>, f)
         IN IF chk.err THEN chk
            ELSE IF srv.databases[d] # "absent" THEN chk
            ELSE Run(chk, <<CreateDatabaseStmt(d)>>, f)

createUser(conn, srv, u, p, faultAt) ==
    IF conn = "null" THEN NotConnected(srv)
    ELSE LET f == Fault(conn, faultAt)
             chk == Run(Begin(srv), <<SelectUser(u)>>, f)
         IN IF chk.err THEN chk
            ELSE IF srv.users[u] # "absent" THEN chk
            ELSE Run(chk, <<CreateUserStmt(u, p)>>, f)

grantPrivileges(conn, srv, u, d, faultAt) ==
    IF conn = "null" THEN NotConnected(srv)
    ELSE Run(Begin(srv), <<GrantAllStmt(u, d), FlushPrivileges>>, Fault(conn, faultAt))

dropDatabaseAndUser(conn, srv, d, u, faultAt) ==
    IF conn = "null" THEN NotConnected(srv)
    ELSE Run(Begin(srv),
             <<DropDatabaseIfExists(d), DropUserIfExists(u), FlushPrivileges>>,
             Fault(conn, faultAt))

\* createDatabaseAndUserClean that drops the database but not the user
createDatabaseAndUserCleanKeepUser(conn, srv, d, u, p, faultAt) ==
    IF conn = "null" THEN NotConnected(srv)
    ELSE Run(Begin(srv),
             <<DropDatabaseIfExists(d), FlushPrivileges, CreateDatabaseStmt(d),
               CreateUserStmt(u, p), GrantAllStmt(u, d), FlushPrivileges>>,
             Fault(conn, faultAt))

\* createDatabaseAndUserClean that creates the user before the database
createDatabaseAndUserCleanUserFirst(conn, srv, d, u, p, faultAt) ==
    IF conn = "null" THEN NotConnected(srv)
    ELSE Run(dropDatabaseAndUser(conn, srv, d, u, faultAt),
             <<CreateUserStmt(u, p), CreateDatabaseStmt(d), GrantAllStmt(u, d),
               FlushPrivileges>>,
             Fault(conn, faultAt))

createDatabaseAndUserClean(conn, srv, d, u, p, faultAt) ==
    IF conn = "null" THEN NotConnected(srv)
    ELSE Run(dropDatabaseAndUser(conn, srv, d, u, faultAt),
             <<CreateDatabaseStmt(d), CreateUserStmt(u, p), GrantAllStmt(u, d),
               FlushPrivileges>>,
             Fault(conn, faultAt))

\* the statements of createDatabaseAndUserClean: any of them may fail
MaxStmts == 7

\* What is remembered of an operation.  repeat: the operation before it was the
\* same call with the same arguments and ended without error.
Record(op, d, u, p, faultAt, r) ==
    [op |-> op, db |-> d, user |-> u, pw |-> p, conn |-> connection,
     fault |-> faultAt # 0, err |-> r.err, log |-> r.log, failedAt |-> r.failedAt,
     repeat |-> /\ last.op = op /\ last.db = d /\ last.user = u /\ last.pw = p
                /\ ~last.err]

NoOp == [op |-> "none", db |-> 0, user |-> NoUser, pw |-> "-", conn |-> "null",
         fault |-> FALSE, err |-> FALSE, log |-> <<>>, failedAt |-> 0,
         repeat |-> FALSE]

(***************************************************************************)
(* Actions of the MySQL layer                                              *)
(***************************************************************************)
\* connect(): createConnection assigns this.connection, then ping; either may
\* throw
ConnectOutcomes == {"ok", "createFails", "pingFails"}
connect(conn, outcome) ==
    CASE outcome = "ok" -> "open"
      [] outcome = "pingFails" -> "dead"
      [] OTHER -> conn

\* connect() rethrows whatever createConnection or ping threw
connectNeverThrows(outcome) == FALSE
connectThrows(outcome) == outcome # "ok"

\* disconnect(): connection.end(), then this.connection = null; an error of
\* end() is logged and leaves the field as it was
disconnect(conn, endOk) ==
    IF conn # "null" /\ endOk THEN "null" ELSE conn

DbConnect ==
    /\ \E outcome \in ConnectOutcomes : connection' = connect(connection, outcome)
    /\ UNCHANGED <<server, last>>
    /\ UNCHANGED <<deployVars, unitVars>>

DbDisconnect ==
    /\ connection # "null"
    /\ \E endOk \in BOOLEAN : connection' = disconnect(connection, endOk)
    /\ UNCHANGED <<server, last>>
    /\ UNCHANGED <<deployVars, unitVars>>

Apply(op, d, u, p, faultAt, r) ==
    /\ server' = r.srv
    /\ last' = Record(op, d, u, p, faultAt, r)
    /\ UNCHANGED connection
    /\ UNCHANGED <<deployVars, unitVars>>

DbCreateDatabase ==
    \E d \in DbNames :
        Apply("createDatabase", d, NoUser, "-", 0,
              createDatabase(connection, server, d, 0))

DbCreateUser ==
    \E u \in UserNames :
        Apply("createUser", 0, u, SharedDbPassword, 0,
              createUser(connection, server, u, SharedDbPassword, 0))

DbGrantPrivileges ==
    \E u \in UserNames, d \in DbNames :
        Apply("grantPrivileges", d, u, "-", 0,
              grantPrivileges(connection, server, u, d, 0))

DbDropDatabaseAndUser ==
    \E d \in DbNames, u \in UserNames :
        Apply("dropDatabaseAndUser", d, u, "-", 0,
              dropDatabaseAndUser(connection, server, d, u, 0))

DbCreateDatabaseAndUserClean ==
    \E d \in DbNames, u \in UserNames, f \in 0..MaxStmts :
        Apply("createDatabaseAndUserClean", d, u, SharedDbPassword, f,
              createDatabaseAndUserClean(connection, server, d, u, SharedDbPassword, f))

\* a server as the run may find it: any databases, any accounts, and
\* database-level grants of existing accounts only
WellFormedServers ==
    { [databases |-> dbs, users |-> us, grants |-> gs] :
        dbs \in [DbNames -> {"absent", "empty", "data"}],
        us \in [UserNames -> {"absent"} \cup Passwords],
        gs \in SUBSET (UserNames \X DbNames) }

NoWpcli == "unchecked"

DeployIdle ==
    /\ pc = "idle"
    /\ exitCode = -1
    /\ idx = 0
    /\ wpStep = "none"
    /\ dbResults = <<>>
    /\ wpResults = <<>>
    /\ permResults = <<>>
    /\ wpcli = NoWpcli
    /\ trace = <<>>
    /\ opts = [appPasswords |-> FALSE, export |-> FALSE]
    /\ ran = {}

InitDb ==
    /\ connection = "null"
    /\ server \in {s \in WellFormedServers :
                      \A g \in s.grants : s.users[g[1]] # "absent"}
    /\ last = NoOp
    /\ DeployIdle
    /\ UnitIdle

NextDb ==
    \/ DbConnect
    \/ DbDisconnect
    \/ DbCreateDatabase
    \/ DbCreateUser
    \/ DbGrantPrivileges
    \/ DbDropDatabaseAndUser
    \/ DbCreateDatabaseAndUserClean

SpecDb == InitDb /\ [][NextDb]_vars

(***************************************************************************)
(* The deploy command                                                      *)
(***************************************************************************)
\* DeploymentResult; an error is identified by the site and step that threw
Error(s, step) == [site |-> s, step |-> step]
Success(s) == [site |-> s, status |-> "success", errors |-> <<>>]
Failed(s, step) == [site |-> s, status |-> "failed", errors |-> <<Error(s, step)>>]

Count(results, status) ==
    Cardinality({k \in 1..Len(results) : results[k].status = status})

getSummary(results) ==
    [total |-> Len(results),
     successful |-> Count(results, "success"),
     failed |-> Count(results, "failed"),
     skipped |-> Count(results, "skipped")]

Entry(s, step, out) == [site |-> s, step |-> step, out |-> out]

\* process.exit(code) / the catch block of the action
Exit(code, why) ==
    /\ pc' = "exit"
    /\ exitCode' = code
    /\ ran' = ran \cup {why}

\* the stage checks of deploy
DbStageAbortsIfAllFailed(summary) == summary.failed = summary.total
DbStageAbortsNever(summary) == FALSE
DbStageAborts(summary) == summary.failed > 0

WpStageAbortsNever(summary) == FALSE
WpStageAborts(summary) == summary.failed > 0

PermStageAborts(summary) == summary.failed > 0

\* databaseManager.initialize(): opens the administrative connection
DeployInitialize ==
    /\ pc = "start"
    /\ \E outcome \in ConnectOutcomes :
          /\ connection' = connect(connection, outcome)
          /\ IF ~connectThrows(outcome)
             THEN /\ pc' = "dbLoop"
                  /\ idx' = 1
                  /\ UNCHANGED <<exitCode, ran>>
             ELSE /\ Exit(1, "throw:initialize")
                  /\ UNCHANGED idx
    /\ UNCHANGED <<wpStep, dbResults, wpResults, permResults, wpcli, trace, opts>>
    /\ UNCHANGED <<server, last, unitVars>>

\* createAllDatabases: one iteration of its per-site loop
DeployCreateDatabase ==
    /\ pc = "dbLoop"
    /\ idx <= NumSites
    /\ \E out \in {"ok", "throw"} :
          /\ dbResults' = Append(dbResults,
                                 IF out = "ok" THEN Success(idx)
                                 ELSE Failed(idx, "createDatabase"))
          /\ trace' = Append(trace, Entry(idx, "createDatabase", out))
    /\ idx' = idx + 1
    /\ UNCHANGED <<pc, exitCode, wpStep, wpResults, permResults, wpcli, opts, ran>>
    /\ UNCHANGED <<dbVars, unitVars>>

\* Step 1 check: dbSummary.failed > 0 closes the connection and exits 1;
\* otherwise the connection is closed and Step 2 starts
DeployDbCheck ==
    /\ pc = "dbLoop"
    /\ idx = NumSites + 1
    /\ \E endOk \in BOOLEAN : connection' = disconnect(connection, endOk)
    /\ IF DbStageAborts(getSummary(dbResults))
       THEN Exit(1, "abort:db")
       ELSE /\ pc' = "wpEnsure"
            /\ UNCHANGED <<exitCode, ran>>
    /\ UNCHANGED <<idx, wpStep, dbResults, wpResults, permResults, wpcli, trace, opts>>
    /\ UNCHANGED <<server, last, unitVars>>

\* ensureWPCLIInstalled: 'wp --version'; else download with curl, install and
\* re-check; else the same with wget; else throw.  found is how far the host
\* lets it get; wpcli keeps whether the host could provide a working wp.
WpcliFound == {"available", "installedWithCurl", "installedWithWget", "unavailable"}
ensureWPCLIInstalledIgnoringFailure(found) == "wp"
ensureWPCLIInstalled(found) ==
    IF found = "available" THEN "wp"
    ELSE IF found = "installedWithCurl" THEN "wp"
    ELSE IF found = "installedWithWget" THEN "wp"
    ELSE "throw"

\* installAllSites, before its loop
WpEnsureCLI ==
    /\ pc = "wpEnsure"
    /\ \E found \in WpcliFound :
          /\ wpcli' = IF found = "unavailable" THEN "unavailable" ELSE "available"
          /\ IF ensureWPCLIInstalled(found) = "wp"
             THEN /\ pc' = "wpLoop"
                  /\ idx' = 1
                  /\ wpStep' = "prepare"
                  /\ UNCHANGED <<exitCode, ran>>
             ELSE /\ Exit(1, "throw:wpcli")
                  /\ UNCHANGED <<idx, wpStep>>
    /\ UNCHANGED <<dbResults, wpResults, permResults, trace, opts>>
    /\ UNCHANGED <<dbVars, unitVars>>

\* the catch block of a per-site loop / its normal push
PushFailedNothing(results, s, step) == results
PushFailed(results, s, step) == Append(results, Failed(s, step))
PushResult(results, s) == Append(results, Success(s))

StagingSteps == {"prepare", "download", "extract", "removeZip", "verify"}
LaterSteps == {"config", "permissions", "complete"}
WpSteps == StagingSteps \cup LaterSteps

\* one throwing step of installWordPressSite: it either returns, and the next
\* step follows, or throws, which installWordPressSite rethrows and the loop of
\* installAllSites catches
SiteStep(step, next) ==
    /\ pc = "wpLoop"
    /\ idx <= NumSites
    /\ wpStep = step
    /\ \E out \in {"ok", "throw"} :
          /\ trace' = Append(trace, Entry(idx, step, out))
          /\ IF out = "ok"
             THEN /\ wpStep' = next
                  /\ UNCHANGED <<idx, wpResults>>
             ELSE /\ wpResults' = PushFailed(wpResults, idx, step)
                  /\ idx' = idx + 1
                  /\ wpStep' = "prepare"
    /\ UNCHANGED <<pc, exitCode, dbResults, permResults, wpcli, opts, ran>>
    /\ UNCHANGED <<dbVars, unitVars>>

WpPrepareDirectory == SiteStep("prepare", "download")
WpDownload         == SiteStep("download", "extract")
WpExtract          == SiteStep("extract", "removeZip")
WpRemoveZip        == SiteStep("removeZip", "verify")
WpVerify           == SiteStep("verify", "config")
WpCreateConfig     == SiteStep("config", "permissions")

\* setWordPressPermissions: an error of the chmod passes is logged, not thrown
WpSetPermissions ==
    /\ pc = "wpLoop"
    /\ idx <= NumSites
    /\ wpStep = "permissions"
    /\ \E out \in {"ok", "swallowed"} :
          trace' = Append(trace, Entry(idx, "permissions", out))
    /\ wpStep' = "complete"
    /\ UNCHANGED <<pc, exitCode, idx, dbResults, wpResults, permResults, wpcli, opts, ran>>
    /\ UNCHANGED <<dbVars, unitVars>>

\* completeWordPressInstallation: every error (connection, installer call,
\* 'core is-installed' check) is caught and logged; installWordPressSite then
\* returns its success result, which the loop pushes
CompleteOutcomes ==
    {"alreadyInstalled", "installed", "connectFailed", "installerFailed",
     "verifyFailed"}

WpCompleteInstallation ==
    /\ pc = "wpLoop"
    /\ idx <= NumSites
    /\ wpStep = "complete"
    /\ \E out \in CompleteOutcomes :
          trace' = Append(trace, Entry(idx, "complete", out))
    /\ wpResults' = PushResult(wpResults, idx)
    /\ idx' = idx + 1
    /\ wpStep' = "prepare"
    /\ UNCHANGED <<pc, exitCode, dbResults, permResults, wpcli, opts, ran>>
    /\ UNCHANGED <<dbVars, unitVars>>

\* Step 2 check: wpSummary.failed > 0 exits 1
DeployWpCheck ==
    /\ pc = "wpLoop"
    /\ idx = NumSites + 1
    /\ IF WpStageAborts(getSummary(wpResults))
       THEN /\ Exit(1, "abort:wp")
            /\ UNCHANGED idx
       ELSE /\ pc' = "permLoop"
            /\ idx' = 1
            /\ UNCHANGED <<exitCode, ran>>
    /\ UNCHANGED <<wpStep, dbResults, wpResults, permResults, wpcli, trace, opts>>
    /\ UNCHANGED <<dbVars, unitVars>>

\* setAllPermissions: one iteration; setSitePermissions verifies the
\* installation and runs its chmod passes, and rethrows any error
PermOutcomes == {"ok", "verifyThrows", "chmodThrows"}

PermSetSite ==
    /\ pc = "permLoop"
    /\ idx <= NumSites
    /\ \E out \in PermOutcomes :
          /\ trace' = Append(trace, Entry(idx, "setSitePermissions", out))
          /\ permResults' = IF out = "ok" THEN PushResult(permResults, idx)
                            ELSE PushFailed(permResults, idx, "setSitePermissions")
    /\ idx' = idx + 1
    /\ UNCHANGED <<pc, exitCode, wpStep, dbResults, wpResults, wpcli, opts, ran>>
    /\ UNCHANGED <<dbVars, unitVars>>

\* Step 3 check: permissionSummary.failed > 0 exits 1
DeployPermCheck ==
    /\ pc = "permLoop"
    /\ idx = NumSites + 1
    /\ IF PermStageAborts(getSummary(permResults))
       THEN Exit(1, "abort:perm")
       ELSE /\ pc' = "appPasswords"
            /\ UNCHANGED <<exitCode, ran>>
    /\ UNCHANGED <<idx, wpStep, dbResults, wpResults, permResults, wpcli, trace, opts>>
    /\ UNCHANGED <<dbVars, unitVars>>

\* Step 4: generateAllAppPasswords when asked for; it catches per site
DeployAppPasswords ==
    /\ pc = "appPasswords"
    /\ pc' = "export"
    /\ ran' = IF opts.appPasswords THEN ran \cup {"appPasswords"} ELSE ran
    /\ UNCHANGED <<exitCode, idx, wpStep, dbResults, wpResults, permResults, wpcli,
                   trace, opts>>
    /\ UNCHANGED <<dbVars, unitVars>>

\* Step 5: generateDeploymentExport when asked for; an error reaches the catch
DeployExport ==
    /\ pc = "export"
    /\ IF opts.export
       THEN \E ok \in BOOLEAN :
               IF ok THEN /\ pc' = "summary"
                          /\ ran' = ran \cup {"export"}
                          /\ UNCHANGED exitCode
               ELSE Exit(1, "throw:export")
       ELSE /\ pc' = "summary"
            /\ UNCHANGED <<exitCode, ran>>
    /\ UNCHANGED <<idx, wpStep, dbResults, wpResults, permResults, wpcli, trace, opts>>
    /\ UNCHANGED <<dbVars, unitVars>>

\* displayCompletionSummary; the action returns and the process ends with 0
DeploySummary ==
    /\ pc = "summary"
    /\ pc' = "done"
    /\ exitCode' = 0
    /\ ran' = ran \cup {"summary"}
    /\ UNCHANGED <<idx, wpStep, dbResults, wpResults, permResults, wpcli, trace, opts>>
    /\ UNCHANGED <<dbVars, unitVars>>

Init ==
    /\ connection = "null"
    /\ server = EmptyServer
    /\ last = NoOp
    /\ pc = "start"
    /\ exitCode = -1
    /\ idx = 0
    /\ wpStep = "none"
    /\ dbResults = <<>>
    /\ wpResults = <<>>
    /\ permResults = <<>>
    /\ wpcli = NoWpcli
    /\ trace = <<>>
    /\ opts \in [appPasswords : BOOLEAN, export : BOOLEAN]
    /\ ran = {}
    /\ UnitIdle

Next ==
    \/ DeployInitialize
    \/ DeployCreateDatabase
    \/ DeployDbCheck
    \/ WpEnsureCLI
    \/ WpPrepareDirectory
    \/ WpDownload
    \/ WpExtract
    \/ WpRemoveZip
    \/ WpVerify
    \/ WpCreateConfig
    \/ WpSetPermissions
    \/ WpCompleteInstallation
    \/ DeployWpCheck
    \/ PermSetSite
    \/ DeployPermCheck
    \/ DeployAppPasswords
    \/ DeployExport
    \/ DeploySummary

Spec == Init /\ [][Next]_vars

(***************************************************************************)
(* Claims about the MySQL layer (checked under SpecDb)                     *)
(***************************************************************************)
\* a createDatabaseAndUserClean call on a working connection, no server fault
CleanRun(r) ==
    r.op = "createDatabaseAndUserClean" /\ r.conn = "open" /\ ~r.fault

SameArgs(r1, r2) == r1.db = r2.db /\ r1.user = r2.user /\ r1.pw = r2.pw

CleanPost ==
    CleanRun(last) =>
        /\ ~last.err
        /\ server.databases[last.db] = "empty"
        /\ server.users[last.user] = SharedDbPassword
        /\ {g \in server.grants : g[1] = last.user} = {<<last.user, last.db>>}

CleanSecondRun ==
    (CleanRun(last) /\ ~last.err /\ CleanRun(last') /\ SameArgs(last, last'))
        => (server' = server /\ ~last'.err)

\* C9: clean-slate provisioning is idempotent.  From any prior server state a
\* createDatabaseAndUserClean run ends without error with the database
\* existing and empty, the user existing with the shared password and holding
\* privileges on exactly that database; a second run with the same arguments
\* right after it raises no error and leaves the server exactly as it was.
C9_CleanSlateIdempotent == [](CleanPost) /\ [][CleanSecondRun]_vars

C9_Witness ==
    /\ CleanRun(last) /\ last.repeat /\ ~last.err
    /\ server.databases[last.db] = "empty"
    /\ \E d \in DbNames : d # last.db /\ server.databases[d] = "data"

IssuesDropOrCreate(log) ==
    \E i \in 1..Len(log) :
        log[i].op \in {"CREATE_DATABASE", "CREATE_USER", "DROP_DATABASE_IF_EXISTS",
                       "DROP_USER_IF_EXISTS"}

SkipIfExistsStep ==
    /\ (/\ last' # last /\ last'.op = "createDatabase" /\ last'.conn = "open"
        /\ server.databases[last'.db] # "absent")
          => (server' = server /\ ~last'.err /\ ~IssuesDropOrCreate(last'.log))
    /\ (/\ last' # last /\ last'.op = "createUser" /\ last'.conn = "open"
        /\ server.users[last'.user] # "absent")
          => (server' = server /\ ~last'.err /\ ~IssuesDropOrCreate(last'.log))

\* C10: createDatabase on a database that exists and createUser on a user that
\* exists issue no DROP or CREATE statement, leave the server unchanged and
\* return without error.
C10_SkipIfExists == [][SkipIfExistsStep]_vars

C10_Witness ==
    /\ last.op = "createDatabase" /\ last.conn = "open" /\ ~last.err
    /\ last.log = <<SelectSchema(last.db)>>
    /\ server.databases[last.db] = "data"

(***************************************************************************)
(* Claims about the deploy command (checked under Spec)                    *)
(***************************************************************************)
Steps(set) == {k \in 1..Len(trace) : trace[k].step \in set}
Started(set) == Steps(set) # {}
PermSteps == {"setSitePermissions"}
Terminated == pc \in {"exit", "done"}

\* C1: when the database stage or the WordPress stage ends with failed > 0,
\* deploy exits with code 1 and no later stage, app-password generation, export
\* or summary is run for any site.
C1_CriticalStageGating ==
    /\ (Len(dbResults) = NumSites /\ getSummary(dbResults).failed > 0) =>
          /\ pc \in {"dbLoop", "exit"}
          /\ pc = "exit" => exitCode = 1
          /\ wpcli = "unchecked" /\ wpResults = <<>> /\ permResults = <<>>
          /\ ~Started(WpSteps \cup PermSteps)
          /\ ran \cap {"appPasswords", "export", "summary"} = {}
    /\ (Len(wpResults) = NumSites /\ getSummary(wpResults).failed > 0) =>
          /\ pc \in {"wpLoop", "exit"}
          /\ pc = "exit" => exitCode = 1
          /\ permResults = <<>>
          /\ ~Started(PermSteps)
          /\ ran \cap {"appPasswords", "export", "summary"} = {}

C1_Witness ==
    /\ pc = "exit" /\ exitCode = 1 /\ "abort:db" \in ran
    /\ getSummary(dbResults).successful > 0

\* C2: a failure of the permission stage never aborts deploy: once
\* setAllPermissions has reported failed > 0, deploy goes on to app passwords,
\* export and the completion summary (an exit can only come from a later step).
C2_PermissionFailureNeverAborts ==
    (Len(permResults) = NumSites /\ getSummary(permResults).failed > 0) =>
        \/ pc \in {"permLoop", "appPasswords", "export", "summary", "done"}
        \/ pc = "exit" /\ "throw:export" \in ran

\* C3: a site whose permission step threw does not get a result with status
\* 'failed', in the permission stage as in the in-pipeline permission step.
C3_PermissionErrorNotFailed ==
    /\ \A k \in Steps(PermSteps) :
          (trace[k].out # "ok" /\ Len(permResults) >= trace[k].site)
              => permResults[trace[k].site].status # "failed"
    /\ \A k \in Steps({"permissions"}) :
          (trace[k].out # "ok" /\ Len(wpResults) >= trace[k].site)
              => wpResults[trace[k].site].status # "failed"

\* every stage that was attempted for site s went well
NoFailureOf(s) ==
    \A k \in 1..Len(trace) :
        trace[k].site = s => trace[k].out \in {"ok", "installed", "alreadyInstalled"}

Completed(s) ==
    /\ \E k \in Steps({"complete"}) : trace[k].site = s
    /\ Len(wpResults) >= s /\ wpResults[s].status = "success"

ErrorsAreOwn(results) ==
    \A k \in 1..Len(results) :
        \A j \in 1..Len(results[k].errors) : results[k].errors[j].site = results[k].site

LoopInv(results, loopPc, after, steps) ==
    /\ Len(results) <= NumSites
    /\ \A k \in 1..Len(results) : results[k].site = k
    /\ pc = loopPc => Len(results) = idx - 1
    /\ (pc \in after \/ (pc = "exit" /\ results # <<>>)) => Len(results) = NumSites
    /\ \A s \in 1..Len(results) : \E k \in Steps(steps) : trace[k].site = s
    /\ \A k \in Steps(steps) :
          trace[k].out \in {"throw", "verifyThrows", "chmodThrows"} =>
              /\ Len(results) >= trace[k].site
              /\ results[trace[k].site] = Failed(trace[k].site, trace[k].step)

PrefixKept(results, results2) ==
    \A k \in 1..Len(results) : Len(results2) >= k /\ results2[k] = results[k]

LoopsInv ==
    /\ LoopInv(wpResults, "wpLoop",
               {"permLoop", "appPasswords", "export", "summary", "done"}, WpSteps)
    /\ LoopInv(permResults, "permLoop",
               {"appPasswords", "export", "summary", "done"}, PermSteps)

LoopsStep ==
    /\ PrefixKept(wpResults, wpResults')
    /\ PrefixKept(permResults, permResults')

\* C5: in installAllSites and setAllPermissions an exception while processing
\* site i gives exactly one result for site i, failed and carrying that error;
\* the sites after i are still attempted, the results recorded before are not
\* changed, and the list holds one result per site in configuration order.
C5_PerSiteLoop == [](LoopsInv) /\ [][LoopsStep]_vars

C5_Witness ==
    /\ Len(wpResults) = NumSites
    /\ wpResults[1].status = "failed"
    /\ wpResults[NumSites].status = "success"

\* C6: a site whose installer call threw, or whose 'core is-installed' check
\* failed, never gets a result with status 'success'.
C6_InstallerFailureFailsSite ==
    \A k \in Steps({"complete"}) :
        (trace[k].out \in {"installerFailed", "verifyFailed"}
         /\ Len(wpResults) >= trace[k].site)
            => wpResults[trace[k].site].status # "success"

\* C7: when WP-CLI is unavailable and cannot be installed, installAllSites
\* throws before any step of the first site, no per-site result is produced,
\* and the command exits with code 1.
C7_InstallerUnavailable ==
    wpcli = "unavailable" =>
        /\ pc = "exit" /\ exitCode = 1
        /\ wpResults = <<>> /\ permResults = <<>>
        /\ ~Started(WpSteps \cup PermSteps)
        /\ "summary" \notin ran

C7_Witness ==
    /\ wpcli = "unavailable" /\ "throw:wpcli" \in ran
    /\ Len(dbResults) = NumSites

StagingDone(s, k) ==
    \E j \in 1..(k - 1) :
        /\ trace[j].site = s
        /\ \/ trace[j].step = "verify" /\ trace[j].out = "ok"
           \/ trace[j].step \in StagingSteps /\ trace[j].out = "throw"

SiteNames == {"", "blog", "shop"}
DirectoryPaths == {"/var/www/blog", "/var/www/shop"}
DatabaseNames == {"", "blog_db", "shop_db"}
DbUsers == {"blog_user", "shop_user"}

SiteConfig == [site_name : SiteNames, directory_path : DirectoryPaths,
               database_name : DatabaseNames, db_user : DbUsers]

RECURSIVE SeqsUpTo(_, _)
SeqsUpTo(S, n) ==
    IF n = 0 THEN {<<>>}
    ELSE LET shorter == SeqsUpTo(S, n - 1)
         IN shorter \cup {Append(q, x) : q \in {r \in shorter : Len(r) = n - 1}, x \in S}

\* siteIndex is 0-based, as forEach gives it
ValidationError(field, siteIndex, value) ==
    [field |-> field, siteIndex |-> siteIndex, value |-> value]

\* validateSiteConfig: the required fields
validateSiteConfig(site, index, errs) ==
    errs
    \o (IF site.site_name = ""
        THEN <<ValidationError("site_name", index, "required")>> ELSE <<>>)
    \o (IF site.directory_path = ""
        THEN <<ValidationError("directory_path", index, "required")>> ELSE <<>>)
    \o (IF site.database_name = ""
        THEN <<ValidationError("database_name", index, "required")>> ELSE <<>>)

RECURSIVE validateSites(_, _, _)
validateSites(sites, i, errs) ==
    IF i > Len(sites) THEN errs
    ELSE validateSites(sites, i + 1, validateSiteConfig(sites[i], i - 1, errs))

\* checkDuplicates: one pass with the sets of names seen so far
RECURSIVE checkDuplicatesFrom(_, _, _, _, _)
checkDuplicatesFrom(sites, i, siteNames, dbNames, errs) ==
    IF i > Len(sites) THEN errs
    ELSE LET site == sites[i]
             e1 == IF site.site_name \in siteNames
                   THEN <<ValidationError("site_name", i - 1, site.site_name)>>
                   ELSE <<>>
             e2 == IF site.database_name \in dbNames
                   THEN <<ValidationError("database_name", i - 1, site.database_name)>>
                   ELSE <<>>
         IN checkDuplicatesFrom(sites, i + 1,
                                siteNames \cup {site.site_name},
                                dbNames \cup {site.database_name},
                                errs \o e1 \o e2)

checkDuplicates(sites, errs) == checkDuplicatesFrom(sites, 1, {}, {}, errs)

\* validateConfig: the errors it collects; it throws when there is any
validateConfig(sites) ==
    LET e0 == IF Len(sites) = 0
              THEN <<[field |-> "sites", siteIndex |-> -1, value |-> "empty"]>>
              ELSE <<>>
    IN checkDuplicates(sites, validateSites(sites, 1, e0))

ParseConfig ==
    /\ parsed = "pending"
    /\ errors' = validateConfig(config)
    /\ parsed' = IF Len(errors') > 0 THEN "rejected" ELSE "accepted"
    /\ UNCHANGED config
    /\ UNCHANGED <<dbVars, deployVars, stageVars, genVars, permVars, cleanupVars, extractVars,
                 urlVars, cleanAllVars>>

InitCfg ==
    /\ connection = "null"
    /\ server = EmptyServer
    /\ last = NoOp
    /\ DeployIdle
    /\ config \in SeqsUpTo(SiteConfig, NumSites)
    /\ errors = <<>>
    /\ parsed = "pending"
    /\ StageIdle
    /\ GenIdle
    /\ PermIdle
    /\ CleanupIdle
    /\ ExtractIdle
    /\ UrlIdle
    /\ CleanAllIdle

NextCfg == ParseConfig

SpecCfg == InitCfg /\ [][NextCfg]_vars

\* C11: in every accepted batch no two sites share a directory path, a
\* database name or a database user.
C11_SitesOwnTheirResources ==
    parsed = "accepted" =>
        \A i, j \in 1..Len(config) :
            i # j => /\ config[i].directory_path # config[j].directory_path
                     /\ config[i].database_name # config[j].database_name
                     /\ config[i].db_user # config[j].db_user

ErrorIndices(field) ==
    {errors[k].siteIndex : k \in {n \in 1..Len(errors) : errors[n].field = field}}

\* C12: when two sites share a database name, validation fails and the errors
\* name both site indices, the first occurrence and the duplicate.
C12_DuplicateReportsBothIndices ==
    parsed # "pending" =>
        \A i, j \in 1..Len(config) :
            (i < j /\ config[i].database_name = config[j].database_name) =>
                /\ parsed = "rejected"
                /\ {i - 1, j - 1} \subseteq ErrorIndices("database_name")

(***************************************************************************)
(* Claims about the administrative connection in deploy (under Spec)       *)
(***************************************************************************)
\* C13: the administrative connection is closed before any WordPress-stage
\* operation and before the exit of the database-stage abort.
C13_ConnectionClosedBeforeStaging ==
    /\ (pc \in {"wpEnsure", "wpLoop"} \/ Started(WpSteps) \/ wpcli # NoWpcli)
          => connection = "null"
    /\ (pc = "exit" /\ "abort:db" \in ran) => connection = "null"

\* C14: if the administrative connect fails, deploy exits with code 1 before
\* database creation is attempted for any site and without any SQL statement;
\* database creation only ever starts on an open connection.
C14_ConnectFailureAbortsUpFront ==
    /\ "throw:initialize" \in ran =>
          /\ pc = "exit" /\ exitCode = 1
          /\ connection # "open"
          /\ dbResults = <<>> /\ trace = <<>>
          /\ last = NoOp /\ server = EmptyServer
    /\ pc = "dbLoop" => connection = "open"
    /\ dbResults # <<>> => "throw:initialize" \notin ran

C14_Witness ==
    /\ "throw:initialize" \in ran /\ connection = "dead" /\ pc = "exit"

(***************************************************************************)
(* WordPressManager: staging of one site's target directory                *)
(***************************************************************************)
WpConfigPhp == "wp-config.php"
WpIncludes == "wp-includes"
TempZip == "wordpress-temp.zip"
TempExtract == "temp-extract"
HiddenFiles == {".user.ini"}
\* what a target directory may hold before deploy
PriorEntries == {WpConfigPhp, WpIncludes, "notes.txt"} \cup HiddenFiles
\* the contents of the 'wordpress' folder of the archive
WordPressFiles == {WpIncludes, "wp-admin", "index.php"}

AlreadyInstalled == "WordPress already installed in target directory"
NotEmpty == "Target directory is not empty"
CannotPrepare == "Cannot prepare directory"
DownloadFailed == "WordPress download failed"
ExtractionFailed == "WordPress extraction failed"

\* allowCleanup: false, true (ask the operator) or 'auto'
AllowCleanup == {"false", "true", "auto"}

\* safeCleanDirectory: removes every entry, skipping the files it cannot remove
safeCleanDirectory(d, protected) == d \cap protected

\* prepareDirectory.  confirm is the operator's answer to the prompt,
\* protected the files safeCleanDirectory cannot remove, writable the outcome
\* of the write test.  Gives the directory afterwards and the error thrown.
prepareDirectoryCleansAnyway(d, allowCleanup, confirm, protected, writable) ==
    [dir |-> safeCleanDirectory(d, protected), err |-> NoError,
     prompted |-> FALSE, probed |-> TRUE]
prepareDirectory(d, allowCleanup, confirm, protected, writable) ==
    LET visibleFiles == d \ HiddenFiles
        \* inquirer.prompt is reached when allowCleanup is true, not 'auto'
        asks == allowCleanup = "true"
        \* .write-test is written and removed
        writeTest(e, asked) ==
            IF writable
            THEN [dir |-> e, err |-> NoError, prompted |-> asked, probed |-> TRUE]
            ELSE [dir |-> e, err |-> CannotPrepare, prompted |-> asked, probed |-> FALSE]
        throw(err, asked) ==
            [dir |-> d, err |-> err, prompted |-> asked, probed |-> FALSE]
    IN IF visibleFiles # {}
       THEN IF WpConfigPhp \in d \/ WpIncludes \in d
            THEN IF allowCleanup # "false"
                 THEN IF allowCleanup # "auto" /\ ~confirm
                      THEN throw(AlreadyInstalled, asks)
                      ELSE \* return, before the write test
                           [dir |-> safeCleanDirectory(d, protected), err |-> NoError,
                            prompted |-> asks, probed |-> FALSE]
                 ELSE throw(AlreadyInstalled, FALSE)
            ELSE IF allowCleanup # "false"
                 THEN IF allowCleanup # "auto" /\ ~confirm
                      THEN throw(NotEmpty, asks)
                      ELSE writeTest(safeCleanDirectory(d, protected), asks)
                 ELSE throw(NotEmpty, FALSE)
       ELSE writeTest(d, FALSE)

\* deploy: cleanAllDirectories is false with --skip-prompts, else the
\* operator's answer to promptDeploymentOptions
cleanAllDirectories(skipPrompts, answer) == IF skipPrompts THEN FALSE ELSE answer

\* installWordPressSite: prepareDirectory(targetDir, autoCleanDirectories ? 'auto' : true)
installAllowCleanup(autoCleanDirectories) ==
    IF autoCleanDirectories THEN "auto" ELSE "true"

\* downloadWordPress: the archive is written to wordpress-temp.zip; the catch
\* block removes it
DownloadOutcomes == {"ok", "httpError", "pipelineFails", "tooSmall"}
downloadWordPress(d, outcome) ==
    IF outcome = "ok"
    THEN [dir |-> d \cup {TempZip}, err |-> NoError]
    ELSE [dir |-> d \ {TempZip}, err |-> DownloadFailed]

\* extractWordPress: unzip into temp-extract, move the contents of its
\* 'wordpress' folder into the target, remove temp-extract and the archive;
\* the catch block removes temp-extract.  moved are the files moved before a
\* move failed.
ExtractOutcomes == {"ok", "extractError", "timeout", "noWordPressFolder", "moveFails"}
extractWordPress(d, outcome, moved) ==
    IF outcome = "ok"
    THEN [dir |-> (d \cup WordPressFiles) \ {TempExtract, TempZip}, err |-> NoError]
    ELSE IF outcome = "moveFails"
    THEN [dir |-> (d \cup moved) \ {TempExtract}, err |-> ExtractionFailed]
    ELSE [dir |-> d \ {TempExtract}, err |-> ExtractionFailed]

\* a step of installWordPressSite on dir: a thrown error ends the staging
StageResult(r, step, next) ==
    /\ dir' = r.dir
    /\ stagePc' = IF r.err = NoError THEN next ELSE "failed"
    /\ UNCHANGED <<dbVars, deployVars, cfgVars, genVars, permVars, cleanupVars, extractVars,
                 urlVars, cleanAllVars>>

\* prepareDirectory called with any allowCleanup
StagePrepare ==
    /\ stagePc = "prepare"
    /\ \E allowCleanup \in AllowCleanup, confirm \in BOOLEAN,
          protected \in SUBSET HiddenFiles, writable \in BOOLEAN :
          LET r == prepareDirectory(dir, allowCleanup, confirm, protected, writable)
          IN /\ StageResult(r, "prepare", "download")
             /\ stageLog' = [allowCleanup |-> allowCleanup, before |-> dir,
                             step |-> "prepare", err |-> r.err,
                             skipPrompts |-> FALSE,
                             prompted |-> r.prompted, probed |-> r.probed]

\* prepareDirectory as deploy reaches it through installAllSites
StagePrepareDeploy ==
    /\ stagePc = "prepare"
    /\ \E skipPrompts \in BOOLEAN, answer \in BOOLEAN, confirm \in BOOLEAN,
          protected \in SUBSET HiddenFiles, writable \in BOOLEAN :
          LET allowCleanup ==
                  installAllowCleanup(cleanAllDirectories(skipPrompts, answer))
              r == prepareDirectory(dir, allowCleanup, confirm, protected, writable)
          IN /\ StageResult(r, "prepare", "download")
             /\ stageLog' = [allowCleanup |-> allowCleanup, before |-> dir,
                             step |-> "prepare", err |-> r.err,
                             skipPrompts |-> skipPrompts,
                             prompted |-> r.prompted, probed |-> r.probed]

StageDownload ==
    /\ stagePc = "download"
    /\ \E outcome \in DownloadOutcomes :
          LET r == downloadWordPress(dir, outcome)
          IN /\ StageResult(r, "download", "extract")
             /\ stageLog' = [stageLog EXCEPT !.step = "download", !.err = r.err]

StageExtract ==
    /\ stagePc = "extract"
    /\ \E outcome \in ExtractOutcomes, moved \in (SUBSET WordPressFiles) \ {WordPressFiles} :
          LET r == extractWordPress(dir, outcome, moved)
          IN /\ StageResult(r, "extract", "removeZip")
             /\ stageLog' = [stageLog EXCEPT !.step = "extract", !.err = r.err]

\* fs.remove(tempZipPath)
StageRemoveZip ==
    /\ stagePc = "removeZip"
    /\ StageResult([dir |-> dir \ {TempZip}, err |-> NoError], "removeZip", "staged")
    /\ stageLog' = [stageLog EXCEPT !.step = "removeZip"]

InitStage ==
    /\ connection = "null"
    /\ server = EmptyServer
    /\ last = NoOp
    /\ DeployIdle
    /\ CfgIdle
    /\ dir \in SUBSET PriorEntries
    /\ stagePc = "prepare"
    /\ stageLog = NoStageLog
    /\ GenIdle
    /\ PermIdle
    /\ CleanupIdle
    /\ ExtractIdle
    /\ UrlIdle
    /\ CleanAllIdle

NextStage ==
    \/ StagePrepare
    \/ StagePrepareDeploy
    \/ StageDownload
    \/ StageExtract
    \/ StageRemoveZip

SpecStage == InitStage /\ [][NextStage]_vars

\* C15: with allowCleanup = false, prepareDirectory on a directory holding
\* wp-config.php or wp-includes throws the directory-conflict error, staging
\* stops there, and the directory holds exactly what it held before.
C15_DenyKeepsPriorInstallation ==
    (stageLog.allowCleanup = "false"
     /\ stageLog.before \cap {WpConfigPhp, WpIncludes} # {}) =>
        /\ stagePc = "failed"
        /\ stageLog.step = "prepare"
        /\ stageLog.err = AlreadyInstalled
        /\ dir = stageLog.before

C15_Witness ==
    /\ stageLog.allowCleanup = "false"
    /\ stageLog.before = {WpConfigPhp, WpIncludes, ".user.ini"}
    /\ stagePc = "failed"

\* C16: when the download or the extraction has failed, neither
\* wordpress-temp.zip nor temp-extract is left in the target directory.
C16_NoTempLeftAfterFailure ==
    (stagePc = "failed" /\ stageLog.step \in {"download", "extract"}) =>
        dir \cap {TempZip, TempExtract} = {}

(***************************************************************************)
(* WordPressManager.createWordPressConfig: wp-config.php from the sample   *)
(***************************************************************************)
\* the keys array
SecretSlots ==
    <<"AUTH_KEY", "SECURE_AUTH_KEY", "LOGGED_IN_KEY", "NONCE_KEY",
      "AUTH_SALT", "SECURE_AUTH_SALT", "LOGGED_IN_SALT", "NONCE_SALT">>
SlotNames == {SecretSlots[k] : k \in 1..Len(SecretSlots)}

\* 'put your unique phrase here'
Placeholder == [draw |-> 0]
\* generateKey(): 64 characters picked with Math.random.  The random source
\* is taken as collision-free: the n-th call of the process returns a value
\* that no other call returns.
generateKey(n) == [draw |-> n]

\* wp-config-sample.php: placeholders for the database and every secret
SampleConfig ==
    [database_name |-> "database_name_here", db_user |-> "username_here",
     secrets |-> [s \in SlotNames |-> Placeholder]]

\* the pattern define\s*\(\s*'KEY'\s*,\s*'put your unique phrase here'\s*\):
\* the key name is matched between its quotes
MatchesUnquoted(keyName, slot) ==
    \/ slot = keyName
    \/ <<keyName, slot>> \in {<<"AUTH_KEY", "SECURE_AUTH_KEY">>,
                             <<"AUTH_SALT", "SECURE_AUTH_SALT">>}
Matches(keyName, slot) == slot = keyName

\* config.replace(pattern, `define('KEY', '${generateKey()}')`) with flag g:
\* every line the pattern matches gets the one generated value
replaceKey(secrets, keyName, value) ==
    [s \in DOMAIN secrets |->
        IF Matches(keyName, s) /\ secrets[s] = Placeholder THEN value ELSE secrets[s]]

\* read the sample and replace the database settings
GenReadSample ==
    /\ genPc = "read"
    /\ \E site \in SiteConfig, readOk \in BOOLEAN :
          IF readOk
          THEN /\ artifact' = [SampleConfig EXCEPT
                                  !.database_name = site.database_name,
                                  !.db_user = site.db_user]
               /\ genPc' = "keys"
               /\ keyIdx' = 1
          ELSE /\ genPc' = "failed"
               /\ UNCHANGED <<artifact, keyIdx>>
    /\ UNCHANGED <<drawn, runs>>
    /\ UNCHANGED <<dbVars, deployVars, cfgVars, stageVars, permVars, cleanupVars, extractVars,
                 urlVars, cleanAllVars>>

\* one iteration of keys.forEach
GenReplaceKey ==
    /\ genPc = "keys"
    /\ keyIdx <= Len(SecretSlots)
    /\ drawn' = drawn + 1
    /\ artifact' = [artifact EXCEPT
                       !.secrets = replaceKey(@, SecretSlots[keyIdx], generateKey(drawn + 1))]
    /\ keyIdx' = keyIdx + 1
    /\ UNCHANGED <<genPc, runs>>
    /\ UNCHANGED <<dbVars, deployVars, cfgVars, stageVars, permVars, cleanupVars, extractVars,
                 urlVars, cleanAllVars>>

\* fs.writeFile(wpConfigPath, config)
GenWrite ==
    /\ genPc = "keys"
    /\ keyIdx = Len(SecretSlots) + 1
    /\ \E writeOk \in BOOLEAN :
          IF writeOk
          THEN genPc' = "written" /\ runs' = runs + 1
          ELSE genPc' = "failed" /\ UNCHANGED runs
    /\ UNCHANGED <<artifact, keyIdx, drawn>>
    /\ UNCHANGED <<dbVars, deployVars, cfgVars, stageVars, permVars, cleanupVars, extractVars,
                 urlVars, cleanAllVars>>

\* the artifact is generated again (the site is deployed once more)
MaxConfigRuns == 2
GenAgain ==
    /\ genPc = "written"
    /\ runs < MaxConfigRuns
    /\ genPc' = "read"
    /\ UNCHANGED <<artifact, keyIdx, drawn, runs>>
    /\ UNCHANGED <<dbVars, deployVars, cfgVars, stageVars, permVars, cleanupVars, extractVars,
                 urlVars, cleanAllVars>>

InitGen ==
    /\ connection = "null"
    /\ server = EmptyServer
    /\ last = NoOp
    /\ DeployIdle
    /\ CfgIdle
    /\ StageIdle
    /\ artifact = NoArtifact
    /\ genPc = "read"
    /\ keyIdx = 0
    /\ drawn = 0
    /\ runs = 0
    /\ PermIdle
    /\ CleanupIdle
    /\ ExtractIdle
    /\ UrlIdle
    /\ CleanAllIdle

NextGen ==
    \/ GenReadSample
    \/ GenReplaceKey
    \/ GenWrite
    \/ GenAgain

SpecGen == InitGen /\ [][NextGen]_vars

\* C17: a written configuration artifact has each of the eight secret slots
\* filled by its own generateKey draw: no slot keeps the placeholder, no two
\* slots hold the same value, and one draw was made per slot.
C17_SecretSlotsIndependent ==
    genPc = "written" =>
        /\ DOMAIN artifact.secrets = SlotNames
        /\ \A s \in SlotNames : artifact.secrets[s] # Placeholder
        /\ \A s1, s2 \in SlotNames :
               s1 # s2 => artifact.secrets[s1] # artifact.secrets[s2]
        /\ drawn = Len(SecretSlots) * runs
        /\ \A k \in 1..Len(SecretSlots) :
               artifact.secrets[SecretSlots[k]] =
                   generateKey(Len(SecretSlots) * (runs - 1) + k)

C17_Witness ==
    /\ genPc = "written" /\ runs = MaxConfigRuns
    /\ artifact.secrets["NONCE_SALT"] = generateKey(Len(SecretSlots) * MaxConfigRuns)

(***************************************************************************)
(* PermissionsManager.setSitePermissions on one installed tree             *)
(***************************************************************************)
\* paths of the install path, relative to it
TreeDirs == {".", "wp-admin", "wp-admin/css", "wp-includes",
             "wp-content", "wp-content/themes", "wp-content/uploads"}
TreeFiles == {"wp-config.php", "wp-blog-header.php", "wp-includes/version.php",
              "wp-admin/css/login.css", "wp-content/themes/style.css"}
TreePaths == TreeDirs \cup TreeFiles

\* the directories setDirectoryPermissions lists; '' is the root
ListedDirectories == {".", "wp-admin", "wp-includes", "wp-content",
                      "wp-content/themes", "wp-content/plugins", "wp-content/uploads"}
\* what setDirectoryPermissionsRecursive(wp-content) walks
UnderWpContent == {"wp-content/themes", "wp-content/uploads"}
RequiredFiles == {"wp-blog-header.php", "wp-config.php", "wp-includes/version.php"}

DirMode == 755
FileMode == 644
ConfigMode == 600
\* modes a path may have before
PriorDirModes == {700, 775}
PriorFileModes == {600, 664}

Absent == [kind |-> "absent", mode |-> 0]
Exists(tr, p) == p \in DOMAIN tr /\ tr[p].kind # "absent"

\* fs.chmod on each path of ps that exists
chmodExisting(tr, ps, m) ==
    [p \in DOMAIN tr |-> IF p \in ps /\ Exists(tr, p) THEN [tr[p] EXCEPT !.mode = m]
                         ELSE tr[p]]

verifyWordPressInstallation(tr) == \A f \in RequiredFiles : Exists(tr, f)

\* the listed directories, then every directory below wp-content
setDirectoryPermissions(tr) ==
    chmodExisting(chmodExisting(tr, ListedDirectories, DirMode),
                  {p \in UnderWpContent : tr[p].kind = "dir"}, DirMode)

\* every regular file below the install path
setFilePermissions(tr) ==
    chmodExisting(tr, {p \in DOMAIN tr : tr[p].kind = "file"}, FileMode)

\* wp-config.php 600; uploads created if missing, 755; wp-content 755
setSpecialPermissions(tr) ==
    LET t1 == chmodExisting(tr, {"wp-config.php"}, ConfigMode)
        t2 == [t1 EXCEPT !["wp-content/uploads"] = [kind |-> "dir", mode |-> DirMode]]
    IN chmodExisting(t2, {"wp-content"}, DirMode)

\* a step of setSitePermissions; a failing chmod or check throws
PermStep(step, next, ok, tr) ==
    /\ permPc = step
    /\ IF ok THEN tree' = tr /\ permPc' = next
       ELSE permPc' = "failed" /\ UNCHANGED tree
    /\ UNCHANGED <<dbVars, deployVars, cfgVars, stageVars, genVars, cleanupVars, extractVars,
                 urlVars, cleanAllVars>>

PermVerify == PermStep("verify", "dirs", verifyWordPressInstallation(tree), tree)
PermDirectories ==
    \E ok \in BOOLEAN : PermStep("dirs", "files", ok, setDirectoryPermissions(tree))
PermFiles ==
    \E ok \in BOOLEAN : PermStep("files", "special", ok, setFilePermissions(tree))
PermSpecial ==
    \E ok \in BOOLEAN : PermStep("special", "success", ok, setSpecialPermissions(tree))

\* an installed tree with arbitrary prior modes; uploads and wp-config.php
\* may be missing
InstalledTree(dirModes, fileModes, missing) ==
    [p \in TreePaths |->
        IF p \in missing THEN Absent
        ELSE IF p \in TreeDirs THEN [kind |-> "dir", mode |-> dirModes[p]]
        ELSE [kind |-> "file", mode |-> fileModes[p]]]

InstalledTrees ==
    {InstalledTree(dm, fm, missing) :
        dm \in [TreeDirs -> PriorDirModes],
        fm \in [TreeFiles -> PriorFileModes],
        missing \in SUBSET {"wp-content/uploads", "wp-config.php"}}

InitPerm ==
    /\ connection = "null"
    /\ server = EmptyServer
    /\ last = NoOp
    /\ DeployIdle
    /\ CfgIdle
    /\ StageIdle
    /\ GenIdle
    /\ tree \in InstalledTrees
    /\ permPc = "verify"
    /\ CleanupIdle
    /\ ExtractIdle
    /\ UrlIdle
    /\ CleanAllIdle

NextPerm ==
    \/ PermVerify
    \/ PermDirectories
    \/ PermFiles
    \/ PermSpecial

SpecPerm == InitPerm /\ [][NextPerm]_vars

\* C18: after setSitePermissions has succeeded, every directory under the
\* install path has mode 755, every regular file 644 except wp-config.php
\* with 600, and wp-content/uploads exists with mode 755.
C18_ModesAfterHardening ==
    permPc = "success" =>
        /\ \A p \in TreePaths :
               /\ tree[p].kind = "dir" => tree[p].mode = DirMode
               /\ (tree[p].kind = "file" /\ p # "wp-config.php") => tree[p].mode = FileMode
        /\ tree["wp-config.php"].mode = ConfigMode
        /\ tree["wp-content/uploads"] = [kind |-> "dir", mode |-> DirMode]

(***************************************************************************)
(* The destructive commands cleanup-databases and cleanup-wordpress        *)
(***************************************************************************)
CleanupCommands == {"cleanup-databases", "cleanup-wordpress"}

\* if (!options.confirm) ... process.exit(1)
CleanupNeverRefuses(options) == FALSE
CleanupRefuses(options) == ~options.confirm

\* checkInstallation(site).isWordPress
isWordPressByIndexOnly(d) == "index.php" \in d
isWordPress(d) == "index.php" \in d /\ WpIncludes \in d

\* cleanupAllInstallations: a WordPress directory is removed as a whole
cleanupAllInstallations(d) == IF isWordPress(d) THEN {} ELSE d

\* cleanupAllDatabases: every site's database and user are dropped
RECURSIVE cleanupAllDatabases(_, _)
cleanupAllDatabases(srv, d) ==
    IF d > NumDbNames THEN srv
    ELSE cleanupAllDatabases(
             dropDatabaseAndUser("open", srv, d, CHOOSE u \in UserNames : TRUE, 0).srv,
             d + 1)

CleanupExit(code) ==
    /\ cleanupPc' = "exit"
    /\ exitCode' = code

CleanupFrame ==
    UNCHANGED <<last, pc, idx, wpStep, dbResults, wpResults, permResults, wpcli,
                trace, opts, ran, cfgVars, stagePc, stageLog, genVars, permVars, cmd,
                extractVars, urlVars, cleanAllVars>>

\* the confirmation check at the top of the action
CleanupConfirm ==
    /\ cleanupPc = "start"
    /\ IF CleanupRefuses(cmd)
       THEN CleanupExit(1)
       ELSE cleanupPc' = "configPath" /\ UNCHANGED exitCode
    /\ UNCHANGED <<connection, server, dir, cleanupRan>>
    /\ CleanupFrame

\* fs.pathExists(configPath)
CleanupConfigPath ==
    /\ cleanupPc = "configPath"
    /\ cleanupRan' = cleanupRan \cup {"pathExists"}
    /\ \E exists \in BOOLEAN :
          IF exists THEN cleanupPc' = "parse" /\ UNCHANGED exitCode
          ELSE CleanupExit(1)
    /\ UNCHANGED <<connection, server, dir>>
    /\ CleanupFrame

\* ConfigParser.parseConfig; the catch block exits 1
CleanupParseConfig ==
    /\ cleanupPc = "parse"
    /\ cleanupRan' = cleanupRan \cup {"parseConfig"}
    /\ \E ok \in BOOLEAN :
          IF ok
          THEN /\ cleanupPc' = IF cmd.command = "cleanup-databases"
                               THEN "initialize" ELSE "cleanupWordpress"
               /\ UNCHANGED exitCode
          ELSE CleanupExit(1)
    /\ UNCHANGED <<connection, server, dir>>
    /\ CleanupFrame

\* databaseManager.initialize()
CleanupInitialize ==
    /\ cleanupPc = "initialize"
    /\ cleanupRan' = cleanupRan \cup {"initialize"}
    /\ \E outcome \in ConnectOutcomes :
          /\ connection' = connect(connection, outcome)
          /\ IF connectThrows(outcome) THEN CleanupExit(1)
             ELSE cleanupPc' = "cleanupDatabases" /\ UNCHANGED exitCode
    /\ UNCHANGED <<server, dir>>
    /\ CleanupFrame

\* databaseManager.cleanupAllDatabases(), then close() in the finally block
CleanupDatabases ==
    /\ cleanupPc = "cleanupDatabases"
    /\ cleanupRan' = cleanupRan \cup {"cleanupAllDatabases"}
    /\ \E ok \in BOOLEAN :
          IF ok
          THEN /\ server' = cleanupAllDatabases(server, 1)
               /\ \E endOk \in BOOLEAN : connection' = disconnect(connection, endOk)
               /\ cleanupPc' = "done"
               /\ exitCode' = 0
          ELSE /\ CleanupExit(1)
               /\ UNCHANGED <<server, connection>>
    /\ UNCHANGED dir
    /\ CleanupFrame

\* wordpressManager.cleanupAllInstallations(): it catches its own errors
CleanupWordpress ==
    /\ cleanupPc = "cleanupWordpress"
    /\ cleanupRan' = cleanupRan \cup {"cleanupAllInstallations"}
    /\ \E removeOk \in BOOLEAN :
          dir' = IF removeOk THEN cleanupAllInstallations(dir) ELSE dir
    /\ cleanupPc' = "done"
    /\ exitCode' = 0
    /\ UNCHANGED <<connection, server>>
    /\ CleanupFrame

InitCleanup ==
    /\ connection = "null"
    /\ server \in {s \in WellFormedServers :
                      \A g \in s.grants : s.users[g[1]] # "absent"}
    /\ last = NoOp
    /\ DeployIdle
    /\ CfgIdle
    /\ dir \in SUBSET {WpConfigPhp, WpIncludes, "index.php"}
    /\ stagePc = "idle"
    /\ stageLog = NoStageLog
    /\ GenIdle
    /\ PermIdle
    /\ \E command \in CleanupCommands, confirm \in BOOLEAN :
          cmd = [command |-> command, confirm |-> confirm,
                 server |-> server, dir |-> dir]
    /\ cleanupPc = "start"
    /\ cleanupRan = {}
    /\ ExtractIdle
    /\ UrlIdle
    /\ CleanAllIdle

NextCleanup ==
    \/ CleanupConfirm
    \/ CleanupConfigPath
    \/ CleanupParseConfig
    \/ CleanupInitialize
    \/ CleanupDatabases
    \/ CleanupWordpress

SpecCleanup == InitCleanup /\ [][NextCleanup]_vars

\* C20: cleanup-databases and cleanup-wordpress without --confirm exit with
\* code 1 before the configuration is looked for or read, before a MySQL
\* connection is opened and before any database, user or directory is removed.
C20_CleanupNeedsConfirm ==
    (cleanupPc # "start" /\ ~cmd.confirm) =>
        /\ cleanupPc = "exit" /\ exitCode = 1
        /\ cleanupRan = {}
        /\ connection = "null"
        /\ server = cmd.server
        /\ dir = cmd.dir

C20_Witness ==
    /\ cleanupPc = "exit" /\ ~cmd.confirm
    /\ cmd.command = "cleanup-databases"
    /\ \E d \in DbNames : server.databases[d] = "data"

(***************************************************************************)
(* The extraction promise of extractWordPress                              *)
(***************************************************************************)
\* setTimeout(..., 60000), in seconds
ExtractTimeout == 60
\* how long the clock is followed
MaxClock == 62

\* resolve() and reject() of a promise: the first call settles it, later
\* calls change nothing
settleOverwrites(p, outcome) == outcome
settle(p, outcome) == IF p = "pending" THEN outcome ELSE p

ExtractFrame ==
    UNCHANGED <<dbVars, deployVars, cfgVars, stageVars, genVars, permVars, cleanupVars,
                urlVars, cleanAllVars>>

\* extractStream.on('close'): resolve()
StreamClose ==
    /\ stream = "flowing"
    /\ stream' = "closed"
    /\ promise' = settle(promise, "resolved")
    /\ UNCHANGED <<timer, clock>>
    /\ ExtractFrame

\* extractStream.on('error') and readStream.on('error'): reject(error)
StreamError ==
    /\ stream = "flowing"
    /\ stream' = "errored"
    /\ promise' = settle(promise, "rejected")
    /\ UNCHANGED <<timer, clock>>
    /\ ExtractFrame

\* the setTimeout callback, which is never cleared: reject(timeout)
TimerFire ==
    /\ timer = "armed"
    /\ clock >= ExtractTimeout
    /\ timer' = "fired"
    /\ promise' = settle(promise, "rejected")
    /\ UNCHANGED <<stream, clock>>
    /\ ExtractFrame

\* a second passes; the callback of a due timer runs before the next one does
Tick ==
    /\ clock < MaxClock
    /\ clock < ExtractTimeout \/ timer = "fired"
    /\ clock' = clock + 1
    /\ UNCHANGED <<promise, stream, timer>>
    /\ ExtractFrame

InitExtract ==
    /\ connection = "null"
    /\ server = EmptyServer
    /\ last = NoOp
    /\ DeployIdle
    /\ CfgIdle
    /\ StageIdle
    /\ GenIdle
    /\ PermIdle
    /\ CleanupIdle
    /\ promise = "pending"
    /\ stream = "flowing"
    /\ timer = "armed"
    /\ clock = 0
    /\ UrlIdle
    /\ CleanAllIdle

NextExtract ==
    \/ StreamClose
    \/ StreamError
    \/ TimerFire
    \/ Tick

\* time passes and due timers run; the stream may stay silent for ever
SpecExtract ==
    InitExtract /\ [][NextExtract]_vars /\ WF_vars(Tick) /\ WF_vars(TimerFire)

Settled == promise \in {"resolved", "rejected"}

\* C25: the extraction promise is settled by the stream closing, a stream
\* error or the 60-second timer, whichever comes first: it is settled within
\* the 60 seconds, and once settled its outcome does not change, also when
\* the timer fires after it resolved.
C25_ExtractionSettles ==
    /\ <>Settled
    /\ [](~Settled => clock <= ExtractTimeout)
    /\ [][Settled => promise' = promise]_vars

C25_Witness ==
    /\ promise = "resolved"
    /\ timer = "fired"

(***************************************************************************)
(* The create-databases command                                            *)
(***************************************************************************)
CdbFrame ==
    UNCHANGED <<last, wpStep, wpResults, permResults, wpcli, opts, unitVars>>

\* ConfigParser.parseConfig; an error reaches the catch block, which exits
\* 1 with databaseManager still null
CdbParseConfig ==
    /\ pc = "cdb:parse"
    /\ \E ok \in BOOLEAN :
          IF ok THEN /\ pc' = "cdb:initialize"
                     /\ UNCHANGED <<exitCode, ran>>
          ELSE Exit(1, "throw:parseConfig")
    /\ UNCHANGED <<connection, server, idx, dbResults, trace>>
    /\ CdbFrame

\* databaseManager = new DatabaseManager(config); await initialize()
CdbInitialize ==
    /\ pc = "cdb:initialize"
    /\ \E outcome \in ConnectOutcomes :
          /\ connection' = connect(connection, outcome)
          /\ IF ~connectThrows(outcome)
             THEN /\ pc' = "cdb:loop"
                  /\ idx' = 1
                  /\ exitCode' = exitCode
                  /\ ran' = ran \cup {"initialize"}
             ELSE /\ Exit(1, "throw:initialize")
                  /\ UNCHANGED idx
    /\ UNCHANGED <<server, dbResults, trace>>
    /\ CdbFrame

\* createAllDatabases: one iteration, the clean-slate provisioning of a site
CdbCreateDatabase ==
    /\ pc = "cdb:loop"
    /\ idx <= NumSites
    /\ \E u \in UserNames, f \in 0..MaxStmts :
          LET d == ((idx - 1) % NumDbNames) + 1
              r == createDatabaseAndUserClean(connection, server, d, u,
                                              SharedDbPassword, f)
          IN /\ server' = r.srv
             /\ dbResults' = IF r.err THEN PushFailed(dbResults, idx, "createDatabase")
                              ELSE PushResult(dbResults, idx)
             /\ trace' = Append(trace, Entry(idx, "createDatabase",
                                              IF r.err THEN "throw" ELSE "ok"))
    /\ idx' = idx + 1
    /\ UNCHANGED <<connection, pc, exitCode, ran>>
    /\ CdbFrame

\* the summary; summary.failed > 0 calls process.exit(1) inside the try
\* block, which ends the process there
CdbSummary ==
    /\ pc = "cdb:loop"
    /\ idx = NumSites + 1
    /\ IF getSummary(dbResults).failed > 0
       THEN Exit(1, "abort:db")
       ELSE /\ pc' = "cdb:finally"
            /\ UNCHANGED <<exitCode, ran>>
    /\ UNCHANGED <<connection, server, idx, dbResults, trace>>
    /\ CdbFrame

\* finally: databaseManager.close(), reached when the try block ran through
CdbFinally ==
    /\ pc = "cdb:finally"
    /\ \E endOk \in BOOLEAN : connection' = disconnect(connection, endOk)
    /\ pc' = "done"
    /\ exitCode' = 0
    /\ ran' = ran \cup {"close"}
    /\ UNCHANGED <<server, idx, dbResults, trace>>
    /\ CdbFrame

InitCdb ==
    /\ connection = "null"
    /\ server \in {s \in WellFormedServers :
                      \A g \in s.grants : s.users[g[1]] # "absent"}
    /\ last = NoOp
    /\ pc = "cdb:parse"
    /\ exitCode = -1
    /\ idx = 0
    /\ wpStep = "none"
    /\ dbResults = <<>>
    /\ wpResults = <<>>
    /\ permResults = <<>>
    /\ wpcli = NoWpcli
    /\ trace = <<>>
    /\ opts = [appPasswords |-> FALSE, export |-> FALSE]
    /\ ran = {}
    /\ UnitIdle

NextCdb ==
    \/ CdbParseConfig
    \/ CdbInitialize
    \/ CdbCreateDatabase
    \/ CdbSummary
    \/ CdbFinally

SpecCdb == InitCdb /\ [][NextCdb]_vars

\* C27: once the database manager was initialized, create-databases runs
\* databaseManager.close() before the process ends, when all databases
\* succeeded, when some failed (exit code 1) and when an exception was thrown.
C27_ClosedOnEveryPath ==
    (Terminated /\ "initialize" \in ran) => "close" \in ran

(***************************************************************************)
(* The connection of completeWordPressInstallation (under Spec)            *)
(***************************************************************************)
\* the connection the call opened for the site, when the call returns:
\* connection.end() is called before the early return and after the
\* verification; an error thrown by installWordPressWithWPCLI goes to the
\* outer catch block, which does not call it
completeLeavesConnection(out) ==
    CASE out = "connectFailed" -> "none"
      [] out \in {"alreadyInstalled", "installed"} -> "closed"
      [] out \in {"installerFailed", "verifyFailed"} -> "open"

\* C28: the connection completeWordPressInstallation opened for a site is
\* closed on every path out of the call, so none is open when the pipeline
\* of the next site starts.
C28_SiteConnectionClosed ==
    \A k \in 1..Len(trace) :
        trace[k].step = "complete" =>
            completeLeavesConnection(trace[k].out) # "open"

(***************************************************************************)
(* generateSiteUrl of WordPressManager and of AppPasswordManager           *)
(***************************************************************************)
\* An absolute, normalised directory path is the sequence of its segments; a
\* URL is its scheme and the pieces of text after '://'.
Segments == {"var", "www", "html", "wwwroot", "blog", "example.com"}
\* the segments that contain a dot (none contains a space)
Dotted == {"example.com"}
MaxPathLen == 3
Paths == SeqsUpTo(Segments, MaxPathLen) \ {<<>>}

Https(host) == [scheme |-> "https", host |-> host]
NoUrl == [scheme |-> "-", host |-> <<>>]

\* str.includes('/a/b/'): the segments of pat in a row, and one more after
OccursAt(p, pat, i) ==
    /\ i + Len(pat) <= Len(p)
    /\ SubSeq(p, i, i + Len(pat) - 1) = pat
Includes(p, pat) == \E i \in 1..Len(p) : OccursAt(p, pat, i)
FirstAt(p, pat) == CHOOSE i \in 1..Len(p) :
    OccursAt(p, pat, i) /\ \A j \in 1..(i - 1) : ~OccursAt(p, pat, j)

\* pathParts.indexOf(seg), 0 when absent (pathParts[0] is the empty string)
IndexOf(p, seg) ==
    IF \E i \in 1..Len(p) : p[i] = seg
    THEN CHOOSE i \in 1..Len(p) : p[i] = seg /\ \A j \in 1..(i - 1) : p[j] # seg
    ELSE 0

\* '/a/b' and 'c/d' as pieces of text
RECURSIVE Slashed(_)
Slashed(segs) ==
    IF segs = <<>> THEN <<>> ELSE <<"/", Head(segs)>> \o Slashed(Tail(segs))
Joined(segs) == IF segs = <<>> THEN <<>> ELSE Tail(Slashed(segs))

\* WordPressManager.generateSiteUrl
wpGenerateSiteUrl(p) ==
    LET w == IndexOf(p, "www")
        dirName == p[Len(p)]
    IN IF Includes(p, <<"var", "www">>) /\ w >= 1 /\ Len(p) > w
       THEN IF p[w + 1] = "html" /\ Len(p) > w + 1
            THEN Https(<<p[w + 2]>>)
            ELSE Https(<<p[w + 1]>>)
       ELSE IF dirName \in Dotted THEN Https(<<dirName>>)
       ELSE IF dirName \notin {"html", "public_html"} THEN Https(<<dirName, ".com">>)
       ELSE Https(<<"localhost">>)

\* targetDir.replace(pat, ''): the first occurrence is cut out
Replaced(p, pat) ==
    LET i == FirstAt(p, pat)
    IN Slashed(SubSeq(p, 1, i - 1)) \o Joined(SubSeq(p, i + Len(pat), Len(p)))

\* AppPasswordManager.generateSiteUrl
appGenerateSiteUrl(p) ==
    IF Includes(p, <<"www", "wwwroot">>) THEN Https(Replaced(p, <<"www", "wwwroot">>))
    ELSE IF Includes(p, <<"var", "www", "html">>)
    THEN Https(Replaced(p, <<"var", "www", "html">>))
    ELSE IF Includes(p, <<"var", "www">>) THEN Https(Replaced(p, <<"var", "www">>))
    ELSE IF p[Len(p)] \in Dotted THEN Https(<<p[Len(p)]>>)
    ELSE [scheme |-> "http", host |-> <<"localhost", ":8080">>]

UrlFrame ==
    UNCHANGED <<dbVars, deployVars, cfgVars, stageVars, genVars, permVars, cleanupVars,
                extractVars, cleanAllVars>>

\* the URL written to wp-config.php and given to the installer
UrlWordPress ==
    /\ siteUrl.wp = NoUrl
    /\ siteUrl' = [siteUrl EXCEPT !.wp = wpGenerateSiteUrl(siteUrl.path)]
    /\ UrlFrame

\* the URL of the app-password results and reports
UrlAppPassword ==
    /\ siteUrl.app = NoUrl
    /\ siteUrl' = [siteUrl EXCEPT !.app = appGenerateSiteUrl(siteUrl.path)]
    /\ UrlFrame

InitUrl ==
    /\ connection = "null"
    /\ server = EmptyServer
    /\ last = NoOp
    /\ DeployIdle
    /\ CfgIdle
    /\ StageIdle
    /\ GenIdle
    /\ PermIdle
    /\ CleanupIdle
    /\ ExtractIdle
    /\ \E p \in Paths : siteUrl = [path |-> p, wp |-> NoUrl, app |-> NoUrl]
    /\ CleanAllIdle

NextUrl ==
    \/ UrlWordPress
    \/ UrlAppPassword

SpecUrl == InitUrl /\ [][NextUrl]_vars

\* C29: for every directory path, generateSiteUrl of WordPressManager and
\* generateSiteUrl of AppPasswordManager return the same URL.
C29_SameSiteUrl ==
    (siteUrl.wp # NoUrl /\ siteUrl.app # NoUrl) => siteUrl.wp = siteUrl.app

(***************************************************************************)
(* cleanupAllInstallations over the sites of the configuration             *)
(***************************************************************************)
CleanEntries == {"index.php", WpIncludes, WpConfigPhp}
\* a site directory: missing, or the entries it holds
SiteDirs == {[exists |-> FALSE, entries |-> {}]}
                \cup {[exists |-> TRUE, entries |-> e] : e \in SUBSET CleanEntries}

\* checkInstallation(site)
checkInstallation(d) ==
    [exists |-> d.exists, isWordPress |-> d.exists /\ isWordPress(d.entries)]

RemoveOutcomes == {"ok", "throws"}

\* one iteration of the loop: fs.remove(targetDir) when the directory exists
\* and is WordPress; left is what a remove that threw had not yet deleted
cleanupInstallation(d, outcome, left) ==
    LET status == checkInstallation(d)
    IN IF status.exists /\ status.isWordPress
       THEN IF outcome = "ok"
            THEN [dir |-> [exists |-> FALSE, entries |-> {}], out |-> "removed"]
            ELSE [dir |-> [exists |-> TRUE, entries |-> left], out |-> "throw"]
       ELSE IF status.exists THEN [dir |-> d, out |-> "notWordPress"]
       ELSE [dir |-> d, out |-> "missing"]

\* the loop body with its catch block: the loop goes on with the next site
CleanAllSite ==
    /\ pc = "cleanAll"
    /\ idx <= NumSites
    /\ \E outcome \in RemoveOutcomes, left \in SUBSET siteDirs[idx].entries :
          LET r == cleanupInstallation(siteDirs[idx], outcome, left)
          IN /\ siteDirs' = [siteDirs EXCEPT ![idx] = r.dir]
             /\ trace' = Append(trace, Entry(idx, "cleanup", r.out))
    /\ idx' = idx + 1
    /\ UNCHANGED <<pc, exitCode, wpStep, dbResults, wpResults, permResults, wpcli,
                   opts, ran>>
    /\ UNCHANGED <<dbVars, cfgVars, stageVars, genVars, permVars, cleanupVars,
                   extractVars, urlVars>>

\* 'Cleanup completed.'
CleanAllDone ==
    /\ pc = "cleanAll"
    /\ idx = NumSites + 1
    /\ pc' = "done"
    /\ exitCode' = 0
    /\ UNCHANGED <<idx, wpStep, dbResults, wpResults, permResults, wpcli, trace,
                   opts, ran>>
    /\ UNCHANGED <<dbVars, cfgVars, stageVars, genVars, permVars, cleanupVars,
                   extractVars, urlVars, cleanAllVars>>

\* the sites have directories of their own; cmd keeps what was found
InitCleanAll ==
    /\ connection = "null"
    /\ server = EmptyServer
    /\ last = NoOp
    /\ pc = "cleanAll"
    /\ exitCode = -1
    /\ idx = 1
    /\ wpStep = "none"
    /\ dbResults = <<>>
    /\ wpResults = <<>>
    /\ permResults = <<>>
    /\ wpcli = NoWpcli
    /\ trace = <<>>
    /\ opts = [appPasswords |-> FALSE, export |-> FALSE]
    /\ ran = {}
    /\ CfgIdle
    /\ StageIdle
    /\ GenIdle
    /\ PermIdle
    /\ siteDirs \in [Sites -> SiteDirs]
    /\ cmd = [command |-> "cleanup-wordpress", confirm |-> TRUE, dirs |-> siteDirs]
    /\ cleanupPc = "idle"
    /\ cleanupRan = {}
    /\ ExtractIdle
    /\ UrlIdle

NextCleanAll ==
    \/ CleanAllSite
    \/ CleanAllDone

SpecCleanAll == InitCleanAll /\ [][NextCleanAll]_vars

\* C30: cleanupAllInstallations removes the directory of a site only if it
\* exists and holds both index.php and wp-includes; a missing directory and
\* one without WordPress are left as they were; an error while one site is
\* cleaned does not keep the remaining sites from being processed.
C30_RemovesOnlyWordPress ==
    /\ \A s \in Sites :
          LET before == cmd.dirs[s]
          IN /\ s >= idx => siteDirs[s] = before
             /\ ~(before.exists /\ {"index.php", WpIncludes} \subseteq before.entries)
                    => siteDirs[s] = before
             /\ (s < idx /\ trace[s].out = "removed") => ~siteDirs[s].exists
    /\ \A k \in 1..Len(trace) : trace[k].site = k
    /\ Len(trace) = idx - 1
    /\ pc = "done" => Len(trace) = NumSites

C30_Witness ==
    /\ pc = "done"
    /\ \E k \in 1..(Len(trace) - 1) :
          /\ trace[k].out = "throw"
          /\ trace[k + 1].out = "removed"
          /\ siteDirs[k].exists /\ ~siteDirs[k + 1].exists

(***************************************************************************)
(* The summary of deploy (under Spec)                                      *)
(***************************************************************************)
\* C19: whenever deploy has ended after attempting sites, on the abort paths
\* as on completion, it has reported the final summary of counts.
C19_SummaryAlwaysReported ==
    (Terminated /\ Len(dbResults) = NumSites) => "summary" \in ran

(***************************************************************************)
(* prepareDirectory: prompts and the write test (under SpecStage)          *)
(***************************************************************************)
\* C21: with --skip-prompts deploy never issues a confirmation prompt, also
\* when the target directory is not empty or holds a WordPress installation.
C21_SkipPromptsNeverAsks ==
    stageLog.skipPrompts => ~stageLog.prompted

\* C24: prepareDirectory returns successfully only after the write test with
\* the probe file was made, on every successful path.
C24_ProbeBeforeSuccess ==
    (stageLog.step = "prepare" /\ stageLog.err = NoError) => stageLog.probed

(***************************************************************************)
(* The statements of clean-slate provisioning (under SpecDb)               *)
(***************************************************************************)
\* the order the statements are named in; dropDatabaseAndUser ends with a
\* FLUSH PRIVILEGES of its own, which comes third
CleanSlateOrder(d, u, p) ==
    <<DropDatabaseIfExists(d), DropUserIfExists(u), CreateDatabaseStmt(d),
      CreateUserStmt(u, p), GrantAllStmt(u, d), FlushPrivileges>>

WithoutDropFlush(log) ==
    IF Len(log) >= 3 /\ log[3] = FlushPrivileges
    THEN SubSeq(log, 1, 2) \o SubSeq(log, 4, Len(log))
    ELSE log

IsPrefix(s, t) == Len(s) <= Len(t) /\ s = SubSeq(t, 1, Len(s))

C26_NotConnectedUnlessConnected ==
    (last.op # "none" /\ last.conn # "open") =>
        (last.err /\ last.log = <<>>)

(***************************************************************************)
(* The mode of wp-config.php during deploy (under Spec)                    *)
(***************************************************************************)
\* the mode a step of deploy gives the site's wp-config.php, 0 when it does
\* not chmod it: setSpecialFilePermissions in the pipeline of the site,
\* setSpecialPermissions in the permission stage (a pass that threw may have
\* reached its chmod)
wpConfigChmodTightInPipeline(step, out) ==
    IF step \in {"permissions", "setSitePermissions"} THEN ConfigMode ELSE 0
wpConfigChmod(step, out) ==
    IF step = "permissions" /\ out = "ok" THEN FileMode
    ELSE IF step = "setSitePermissions" /\ out \in {"ok", "chmodThrows"} THEN ConfigMode
    ELSE 0

\* the last mode given to the wp-config.php of site s in the first k steps
RECURSIVE wpConfigMode(_, _)
wpConfigMode(s, k) ==
    IF k = 0 THEN 0
    ELSE LET m == wpConfigChmod(trace[k].step, trace[k].out)
         IN IF trace[k].site = s /\ m # 0 THEN m ELSE wpConfigMode(s, k - 1)

\* C23: in deploy a site's wp-config.php is not given mode 600 before the
\* completeWordPressInstallation call of the site has returned; when the
\* installer runs, the last mode given to it, if any, is 644.
C23_TightenedAfterInstaller ==
    \A k \in 1..Len(trace) :
        /\ wpConfigChmod(trace[k].step, trace[k].out) = ConfigMode =>
               \E j \in 1..(k - 1) :
                   trace[j].site = trace[k].site /\ trace[j].step = "complete"
        /\ trace[k].step = "complete" =>
               wpConfigMode(trace[k].site, k - 1) \in {0, FileMode}

C23_Witness ==
    /\ pc = "done"
    /\ \E k \in 1..Len(trace) :
          /\ trace[k].step = "setSitePermissions" /\ trace[k].out = "ok"
          /\ wpConfigMode(trace[k].site, k - 1) = FileMode
          /\ wpConfigMode(trace[k].site, k) = ConfigMode

====
